---------------------------- MODULE Spec2Model ----------------------------
(***************************************************************************)
(* Model of the spaced-repetition engine of book-learning                 *)
(* (src/book-learning/src/lib/srs.ts) and of the runtime it reads: the    *)
(* ambient clock (new Date()) and the local time zone used by             *)
(* Date.prototype.getDate / setDate.                                       *)
(*                                                                         *)
(* Numbers.  A JavaScript number is modelled as a record: a finite number *)
(* is [k |-> "num", v |-> hundredths], so 2.5 is Num(250) and 1 day is    *)
(* Num(100); NaN, +Infinity, -Infinity and null/undefined are separate    *)
(* values.  All constants of srs.ts (1.3, 0.2, 0.15, 1.2, 2.5, 3) are     *)
(* whole hundredths, so every sum and product below is exact decimal      *)
(* arithmetic; the binary rounding of IEEE-754 doubles is not modelled.   *)
(*                                                                         *)
(* Time.  A Date is its time value in whole hours since 1970-01-01T00:00Z *)
(* (the code uses milliseconds); calendar fields follow ECMA-262 (Day,    *)
(* YearFromTime, MonthFromTime, DateFromTime, MakeDay, LocalTime, UTC).   *)
(***************************************************************************)
EXTENDS Integers, FiniteSets, Sequences, TLC

VARIABLES
    state,   \* the SrsState handed to nextSrs (a word's srsIntervalDays/srsEase/srsReps)
    clock,   \* the ambient clock: the time value new Date() returns
    tz,      \* the local time zone of the runtime
    ticks,   \* hours the clock has advanced since the start
    last,    \* the latest call of nextSrs: its arguments, the clock it read, its result
    prev,    \* the call of nextSrs before the latest one (recorded by CallAgain only)
    streak,  \* history of a chain of transitions: the ratings other than 'again'
             \* applied since the latest 'again', and whether there was an 'again'
    heap,    \* the SrsState objects in memory, by address
    held,    \* the references callers hold: the address, the value it had when it
             \* was returned, and the value its holder last saw or wrote
    account, \* the user account.get() returns: the server's view of the visitor
    session, \* SessionProvider: the state and value of the initialUser resource
             \* and the user signal
    path,    \* the location the router shows
    words,   \* the words collection: the stored word documents, by $id
    tabs,    \* the review pages open (one per browser tab): their signals, the
             \* due resource, and the position of a running rate call
    prefs,   \* the account's prefs.favoriteBookIds in the cloud
    devices, \* per device: the favorites in localStorage and a running toggle
    attempt  \* a running login call: its position and the calls it has made

engineVars == <<state, clock, tz, ticks, last, prev, streak>>
heapVars == <<heap, held>>
appVars == <<account, session, path>>
pageVars == <<words, tabs, prefs, devices, attempt>>

vars == <<engineVars, heapVars, pageVars, appVars, pageVars>>

---------------------------------------------------------------------------
(* JavaScript numbers *)

Scale == 100

Num(v) == [k |-> "num", v |-> v]
NaN == [k |-> "nan", v |-> 0]
PosInf == [k |-> "inf", v |-> 1]
NegInf == [k |-> "inf", v |-> -1]
Null == [k |-> "null", v |-> 0]

IsFinite(x) == x.k = "num"

\* typeof x === 'number'
TypeofNumber(x) == x.k \in {"num", "nan", "inf"}

\* x ?? d
Nullish(x, d) == IF x.k = "null" THEN d ELSE x

\* a === b on numbers (NaN equals nothing)
StrictEq(a, b) == a.k # "nan" /\ a.k # "null" /\ a = b

\* a < b on numbers (false when either is NaN)
JsLess(a, b) ==
    CASE a.k = "nan" \/ b.k = "nan" -> FALSE
      [] a.k = "inf" -> a.v < 0 /\ b # NegInf
      [] b.k = "inf" -> b.v > 0
      [] OTHER -> a.v < b.v

\* Math.floor
MathFloor(x) == IF x.k = "num" THEN Num((x.v \div Scale) * Scale) ELSE x

\* Math.round: to the nearest integer, halves towards +Infinity
MathRound(x) == IF x.k = "num" THEN Num(((2 * x.v + Scale) \div (2 * Scale)) * Scale) ELSE x

\* Math.max of two numbers: NaN if either is NaN
MathMax(a, b) ==
    CASE a.k = "nan" \/ b.k = "nan" -> NaN
      [] JsLess(a, b) -> b
      [] OTHER -> a

\* a + b (one of them finite in every use of srs.ts)
JsAdd(a, b) ==
    CASE a.k = "nan" \/ b.k = "nan" -> NaN
      [] a.k = "inf" -> a
      [] b.k = "inf" -> b
      [] OTHER -> Num(a.v + b.v)

\* a - b for a finite b
JsSub(a, b) == JsAdd(a, Num(0 - b.v))

\* a * c for a finite positive constant c; exact when a is a whole number
JsMul(a, c) == IF a.k = "num" THEN Num((a.v * c.v) \div Scale) ELSE a

---------------------------------------------------------------------------
(* Dates: ECMA-262 time values, in hours *)

HoursPerDay == 24

Years == 2023 .. 2027

Day(t) == t \div HoursPerDay
TimeWithinDay(t) == t % HoursPerDay

DaysInYear(y) ==
    IF y % 4 # 0 THEN 365
    ELSE IF y % 100 # 0 THEN 366
    ELSE IF y % 400 # 0 THEN 365 ELSE 366

DayFromYear(y) ==
    365 * (y - 1970) + ((y - 1969) \div 4) - ((y - 1901) \div 100) + ((y - 1601) \div 400)

TimeFromYear(y) == HoursPerDay * DayFromYear(y)

YearFromTime(t) == CHOOSE y \in Years : TimeFromYear(y) <= t /\ t < TimeFromYear(y + 1)

InLeapYear(t) == IF DaysInYear(YearFromTime(t)) = 366 THEN 1 ELSE 0

DayWithinYear(t) == Day(t) - DayFromYear(YearFromTime(t))

\* the day within the year on which month m (0..11) starts; MonthStart(12, _) ends the year
MonthStart(m, leap) ==
    CASE m = 0 -> 0
      [] m = 1 -> 31
      [] m = 2 -> 59 + leap
      [] m = 3 -> 90 + leap
      [] m = 4 -> 120 + leap
      [] m = 5 -> 151 + leap
      [] m = 6 -> 181 + leap
      [] m = 7 -> 212 + leap
      [] m = 8 -> 243 + leap
      [] m = 9 -> 273 + leap
      [] m = 10 -> 304 + leap
      [] m = 11 -> 334 + leap
      [] OTHER -> 365 + leap

MonthFromTime(t) ==
    LET leap == InLeapYear(t)
        dwy == DayWithinYear(t)
    IN  CHOOSE m \in 0 .. 11 : MonthStart(m, leap) <= dwy /\ dwy < MonthStart(m + 1, leap)

DateFromTime(t) == DayWithinYear(t) - MonthStart(MonthFromTime(t), InLeapYear(t)) + 1

HourFromTime(t) == TimeWithinDay(t)

\* 0 = Sunday
WeekDay(t) == (Day(t) + 4) % 7

\* MakeDay(year, month, date): the date may lie outside the month
MakeDay(year, month, date) ==
    LET ym == year + (month \div 12)
        mn == month % 12
        leap == IF DaysInYear(ym) = 366 THEN 1 ELSE 0
    IN  DayFromYear(ym) + MonthStart(mn, leap) + date - 1

MakeDate(day, time) == day * HoursPerDay + time

---------------------------------------------------------------------------
(* The local time zone *)

\* a zone with United States daylight-saving rules, and one without daylight saving
NewYork == [name |-> "America/New_York", std |-> -5, dst |-> TRUE]
HoChiMinh == [name |-> "Asia/Ho_Chi_Minh", std |-> 7, dst |-> FALSE]
Zones == {NewYork, HoChiMinh}

\* the n-th Sunday (n >= 1) of month m of year y, as a date of the month
NthSunday(y, m, n) ==
    CHOOSE d \in (7 * n - 6) .. (7 * n) : WeekDay(MakeDate(MakeDay(y, m, d), 0)) = 0

\* daylight saving runs from 02:00 local time on the second Sunday of March to
\* 02:00 local time on the first Sunday of November (local times, per year)
DstRule ==
    [y \in Years |-> [start |-> MakeDate(MakeDay(y, 2, NthSunday(y, 2, 2)), 2),
                      end |-> MakeDate(MakeDay(y, 10, NthSunday(y, 10, 1)), 2)]]

DstStart(z, y) == DstRule[y].start - z.std
DstEnd(z, y) == DstRule[y].end - (z.std + 1)

\* the zone's offset from UTC, in hours, at time value t
Offset(z, t) ==
    LET y == YearFromTime(t)
    IN  IF z.dst /\ DstStart(z, y) <= t /\ t < DstEnd(z, y) THEN z.std + 1 ELSE z.std

LocalTime(z, t) == t + Offset(z, t)

\* UTC(t): the time value of local time t.  A repeated local time is the earlier
\* instant; a skipped one is read with the offset in force before the transition.
UTC(z, tl) ==
    LET cands == {u \in {tl - z.std - 1, tl - z.std} : LocalTime(z, u) = tl}
    IN  IF cands # {}
        THEN CHOOSE u \in cands : \A w \in cands : u <= w
        ELSE tl - Offset(z, tl - z.std - HoursPerDay)

\* a Date object: a time value, or an invalid date (time value NaN)
DateOf(t) == [valid |-> TRUE, t |-> t]
InvalidDate == [valid |-> FALSE, t |-> 0]

\* Date.prototype.getDate, in the zone tz
getDate(d) == IF d.valid THEN Num(DateFromTime(LocalTime(tz, d.t)) * Scale) ELSE NaN

\* Date.prototype.setDate(dt), in the zone tz
setDate(d, dt) ==
    IF ~d.valid \/ ~IsFinite(dt) THEN InvalidDate
    ELSE LET t == LocalTime(tz, d.t)
             newDate == MakeDate(MakeDay(YearFromTime(t), MonthFromTime(t), dt.v \div Scale),
                                 TimeWithinDay(t))
         IN  DateOf(UTC(tz, newDate))

---------------------------------------------------------------------------
(* context/session.tsx: the session of the visitor *)

\* what account.get() yields: null (no session), or a user and its emailVerification
NoUser == [present |-> FALSE, emailVerification |-> FALSE]
Unverified == [present |-> TRUE, emailVerification |-> FALSE]
Verified == [present |-> TRUE, emailVerification |-> TRUE]
Users == {NoUser, Unverified, Verified}

\* createSignal(null) and createResource(safeGetUser), before the fetch resolves
NewSession == [state |-> "pending", value |-> NoUser, user |-> NoUser]

\* loading: () => initialUser.loading
loading == session.state \in {"pending", "refreshing"}

\* session.user()
user == session.user

\* the result of an API call that did not throw
NoError == [kind |-> "none", type |-> "", message |-> <<>>]

\* no login call is running and none has been made
NoAttempt == [pc |-> "none", as |-> NoUser, calls |-> <<>>, outcome |-> "none", err |-> NoError]

---------------------------------------------------------------------------
(* srs.ts *)

Ratings == {"again", "hard", "good", "easy"}

initialSrsState == [intervalDays |-> Num(0), ease |-> Num(250), reps |-> Num(0)]

\* mutant of initialSrsStateRef: every call returns one shared object
initialSrsStateShared(h) == 1

\* the address of the object initialSrsState() returns: the object literal makes
\* a new object at every call
initialSrsStateRef(h) == Len(h) + 1

\* mutant of addDays: days added as fixed 24-hour multiples
addDaysFixedHours(date, days) ==
    IF ~date.valid \/ ~IsFinite(days) THEN InvalidDate
    ELSE DateOf(date.t + HoursPerDay * (days.v \div Scale))

\* mutant of addDays: a day of the month beyond the month's end is not rolled over
addDaysNoRollover(date, days) ==
    LET d == setDate(date, JsAdd(getDate(date), days))
    IN  IF d.valid /\ MonthFromTime(LocalTime(tz, d.t)) # MonthFromTime(LocalTime(tz, date.t))
        THEN InvalidDate
        ELSE d

addDays(date, days) ==
    LET d == date
    IN  setDate(d, JsAdd(getDate(d), days))

\* mutant of normIntervalDays: the stored value is not floored
normIntervalDaysNoFloor(st) == MathMax(Num(0), Nullish(st.intervalDays, Num(0)))

\* let intervalDays = Math.max(0, Math.floor(state.intervalDays ?? 0))
normIntervalDays(st) == MathMax(Num(0), MathFloor(Nullish(st.intervalDays, Num(0))))

\* let ease = typeof state.ease === 'number' ? state.ease : 2.5
normEase(st) == IF TypeofNumber(st.ease) THEN st.ease ELSE Num(250)

\* mutant of normReps: reps kept from the previous call
normRepsCarried(st) ==
    IF last.rating # "none" THEN last.next.reps
    ELSE MathMax(Num(0), MathFloor(Nullish(st.reps, Num(0))))

\* mutant of normReps: the stored value is not floored
normRepsNoFloor(st) == MathMax(Num(0), Nullish(st.reps, Num(0)))

\* let reps = Math.max(0, Math.floor(state.reps ?? 0))
normReps(st) == MathMax(Num(0), MathFloor(Nullish(st.reps, Num(0))))

\* mutant of againNext: the interval is not reset
againNextKeepsInterval(intervalDays, ease, reps) ==
    [intervalDays |-> intervalDays,
     ease |-> MathMax(Num(130), JsSub(ease, Num(20))),
     reps |-> Num(0)]

\* mutant of againNext: the ease is not clamped
againNextNoClamp(intervalDays, ease, reps) ==
    [intervalDays |-> Num(1 * Scale), ease |-> JsSub(ease, Num(20)), reps |-> Num(0)]

\* mutant of againNext: the word is due again at once
againNextDueNow(intervalDays, ease, reps) ==
    [intervalDays |-> Num(0),
     ease |-> MathMax(Num(130), JsSub(ease, Num(20))),
     reps |-> Num(0)]

\* mutant of againNext: reps is not reset
againNextKeepsReps(intervalDays, ease, reps) ==
    [intervalDays |-> Num(1 * Scale),
     ease |-> MathMax(Num(130), JsSub(ease, Num(20))),
     reps |-> reps]

\* the 'again' branch, on the normalised fields
againNext(intervalDays, ease, reps) ==
    [intervalDays |-> Num(1 * Scale),
     ease |-> MathMax(Num(130), JsSub(ease, Num(20))),
     reps |-> Num(0)]

\* mutant of hardNext: the ease is not clamped
hardNextNoClamp(intervalDays, ease, reps) ==
    [intervalDays |-> IF StrictEq(intervalDays, Num(0)) THEN Num(1 * Scale)
                      ELSE MathMax(Num(1 * Scale), MathRound(JsMul(intervalDays, Num(120)))),
     ease |-> JsSub(ease, Num(15)),
     reps |-> reps]

\* mutant of hardNext: Math.floor in place of Math.round
hardNextTruncates(intervalDays, ease, reps) ==
    [intervalDays |-> IF StrictEq(intervalDays, Num(0)) THEN Num(1 * Scale)
                      ELSE MathMax(Num(1 * Scale), MathFloor(JsMul(intervalDays, Num(120)))),
     ease |-> MathMax(Num(130), JsSub(ease, Num(15))),
     reps |-> reps]

\* mutant of hardNext: the ease penalty of 'again'
hardNextPenaltyOfAgain(intervalDays, ease, reps) ==
    [intervalDays |-> IF StrictEq(intervalDays, Num(0)) THEN Num(1 * Scale)
                      ELSE MathMax(Num(1 * Scale), MathRound(JsMul(intervalDays, Num(120)))),
     ease |-> MathMax(Num(130), JsSub(ease, Num(20))),
     reps |-> reps]

\* mutant of hardNext: the product is not rounded
hardNextUnrounded(intervalDays, ease, reps) ==
    [intervalDays |-> IF StrictEq(intervalDays, Num(0)) THEN Num(1 * Scale)
                      ELSE MathMax(Num(1 * Scale), JsMul(intervalDays, Num(120))),
     ease |-> MathMax(Num(130), JsSub(ease, Num(15))),
     reps |-> reps]

\* mutant of hardNext: the interval is multiplied by 0.8
hardNextShrinks(intervalDays, ease, reps) ==
    [intervalDays |-> IF StrictEq(intervalDays, Num(0)) THEN Num(1 * Scale)
                      ELSE MathMax(Num(1 * Scale), MathRound(JsMul(intervalDays, Num(80)))),
     ease |-> MathMax(Num(130), JsSub(ease, Num(15))),
     reps |-> reps]

\* the 'hard' branch, after reps += 1
hardNext(intervalDays, ease, reps) ==
    [intervalDays |-> IF StrictEq(intervalDays, Num(0)) THEN Num(1 * Scale)
                      ELSE MathMax(Num(1 * Scale), MathRound(JsMul(intervalDays, Num(120)))),
     ease |-> MathMax(Num(130), JsSub(ease, Num(15))),
     reps |-> reps]

\* mutant of goodNext: Math.floor in place of Math.round
goodNextTruncates(intervalDays, ease, reps) ==
    [intervalDays |-> IF StrictEq(intervalDays, Num(0)) THEN Num(1 * Scale)
                      ELSE MathMax(Num(1 * Scale), MathFloor(JsMul(intervalDays, Num(250)))),
     ease |-> ease,
     reps |-> reps]

\* mutant of goodNext: the product alone, with no first step and no minimum
goodNextProductOnly(intervalDays, ease, reps) ==
    [intervalDays |-> MathRound(JsMul(intervalDays, Num(250))),
     ease |-> ease,
     reps |-> reps]

\* mutant of goodNext: the interval is capped at a week
goodNextCapsInterval(intervalDays, ease, reps) ==
    LET days == IF StrictEq(intervalDays, Num(0)) THEN Num(1 * Scale)
                ELSE MathMax(Num(1 * Scale), MathRound(JsMul(intervalDays, Num(250))))
    IN  [intervalDays |-> IF JsLess(Num(7 * Scale), days) THEN Num(7 * Scale) ELSE days,
         ease |-> ease,
         reps |-> reps]

\* mutant of goodNext: the interval is multiplied by the ease
goodNextByEase(intervalDays, ease, reps) ==
    [intervalDays |-> IF StrictEq(intervalDays, Num(0)) THEN Num(1 * Scale)
                      ELSE MathMax(Num(1 * Scale), MathRound(JsMul(intervalDays, ease))),
     ease |-> ease,
     reps |-> reps]

\* the 'good' branch, after reps += 1
goodNext(intervalDays, ease, reps) ==
    [intervalDays |-> IF StrictEq(intervalDays, Num(0)) THEN Num(1 * Scale)
                      ELSE MathMax(Num(1 * Scale), MathRound(JsMul(intervalDays, Num(250)))),
     ease |-> ease,
     reps |-> reps]

\* mutant of easyNext: the ease is capped at its starting value
easyNextCapsEase(intervalDays, ease, reps) ==
    [intervalDays |-> IF StrictEq(intervalDays, Num(0)) THEN Num(2 * Scale)
                      ELSE MathMax(Num(2 * Scale), MathRound(JsMul(intervalDays, Num(300)))),
     ease |-> IF JsLess(Num(250), JsAdd(ease, Num(15))) THEN Num(250) ELSE JsAdd(ease, Num(15)),
     reps |-> reps]

\* the 'easy' branch, after reps += 1
easyNext(intervalDays, ease, reps) ==
    [intervalDays |-> IF StrictEq(intervalDays, Num(0)) THEN Num(2 * Scale)
                      ELSE MathMax(Num(2 * Scale), MathRound(JsMul(intervalDays, Num(300)))),
     ease |-> JsAdd(ease, Num(15)),
     reps |-> reps]

\* nextSrs(state, rating): now is read from the ambient clock, not passed in
nextSrs(st, rating) ==
    LET now == DateOf(clock)
        intervalDays == normIntervalDays(st)
        ease == normEase(st)
        reps == normReps(st)
        next == CASE rating = "again" -> againNext(intervalDays, ease, reps)
                  [] rating = "hard" -> hardNext(intervalDays, ease, JsAdd(reps, Num(1 * Scale)))
                  [] rating = "good" -> goodNext(intervalDays, ease, JsAdd(reps, Num(1 * Scale)))
                  [] OTHER -> easyNext(intervalDays, ease, JsAdd(reps, Num(1 * Scale)))
    IN  [next |-> next, dueAt |-> addDays(now, next.intervalDays)]

---------------------------------------------------------------------------
(* Bounds and inputs *)

MaxTicks == 1
MaxInterval == 30
MaxReps == 4
MaxEase == 300
MaxHeld == 2
MaxWords == 1
MaxReviews == 2

\* the instant 00:00 UTC + h hours of the given calendar day
At(y, m, d, h) == MakeDate(MakeDay(y, m, d), h)

\* clock readings at the start: before a month end, before a year end, and before
\* the two daylight-saving transitions of America/New_York in 2024
Seeds ==
    { At(2024, 0, 30, 15), At(2024, 11, 30, 20), At(2024, 2, 9, 6), At(2024, 10, 2, 5) }

\* stored field values: negative, zero, whole, fractional, missing
IntervalInputs == {Num(-500), Num(0), Num(100), Num(300), Num(370), Num(1000), Null}
EaseInputs == {Num(100), Num(140), Num(250), Null}
RepsInputs == {Num(-100), Num(0), Num(100), Num(150), Num(500), Null}

InputStates ==
    { [intervalDays |-> i, ease |-> e, reps |-> r] :
        i \in IntervalInputs, e \in EaseInputs, r \in RepsInputs }

\* no call made yet
NoCall ==
    [state |-> initialSrsState, rating |-> "none", now |-> 0,
     next |-> initialSrsState, dueAt |-> InvalidDate]

\* no rating applied yet
NoStreak == [since |-> 0, lapsed |-> FALSE]

\* the record of the call nextSrs(st, rating) made now
CallRecord(st, rating) ==
    LET r == nextSrs(st, rating)
    IN  [state |-> st, rating |-> rating, now |-> clock, next |-> r.next, dueAt |-> r.dueAt]

---------------------------------------------------------------------------
(* The engine as a state machine: nextSrs is called on the state at the     *)
(* current clock reading; the clock advances between calls.                 *)

Init ==
    /\ state \in InputStates
    /\ clock \in Seeds
    /\ tz \in Zones
    /\ ticks = 0
    /\ last = NoCall
    /\ prev = NoCall
    /\ streak = NoStreak
    /\ heap = <<>>
    /\ held = <<>>
    /\ account = NoUser
    /\ session = NewSession
    /\ path = "/"
    /\ words = <<>>
    /\ tabs = <<>>
    /\ prefs = {}
    /\ devices = <<>>
    /\ attempt = NoAttempt

\* mutant of Call: the fields are normalised in the argument itself
CallNormalizesInPlace(rating) ==
    /\ last' = CallRecord(state, rating)
    /\ state' = [intervalDays |-> normIntervalDays(state), ease |-> normEase(state),
                 reps |-> normReps(state)]
    /\ UNCHANGED <<clock, tz, ticks, prev, streak, heapVars, appVars, pageVars>>

\* one call nextSrs(state, rating)
Call(rating) ==
    /\ last' = CallRecord(state, rating)
    /\ UNCHANGED <<state, clock, tz, ticks, prev, streak, heapVars, appVars, pageVars>>

\* an hour passes
Tick ==
    /\ ticks < MaxTicks
    /\ clock' = clock + 1
    /\ ticks' = ticks + 1
    /\ UNCHANGED <<state, tz, last, prev, streak, heapVars, appVars, pageVars>>

Next == (\E rating \in Ratings : Call(rating)) \/ Tick

Spec == Init /\ [][Next]_vars

---------------------------------------------------------------------------
(* Two calls in a row: the call before the latest one is kept too *)

TwiceStates ==
    { initialSrsState,
      [intervalDays |-> Num(100), ease |-> Num(250), reps |-> Num(100)],
      [intervalDays |-> Num(1000), ease |-> Num(250), reps |-> Num(500)],
      [intervalDays |-> Num(-500), ease |-> Null, reps |-> Num(150)] }

InitTwice ==
    /\ state \in TwiceStates
    /\ clock \in Seeds
    /\ tz \in Zones
    /\ ticks = 0
    /\ last = NoCall
    /\ prev = NoCall
    /\ streak = NoStreak
    /\ heap = <<>>
    /\ held = <<>>
    /\ account = NoUser
    /\ session = NewSession
    /\ path = "/"
    /\ words = <<>>
    /\ tabs = <<>>
    /\ prefs = {}
    /\ devices = <<>>
    /\ attempt = NoAttempt

CallAgain(rating) ==
    /\ prev' = last
    /\ last' = CallRecord(state, rating)
    /\ UNCHANGED <<state, clock, tz, ticks, streak, heapVars, appVars, pageVars>>

NextTwice == (\E rating \in Ratings : CallAgain(rating)) \/ Tick

SpecTwice == InitTwice /\ [][NextTwice]_vars

---------------------------------------------------------------------------
(* The state graph of the engine: from initialSrsState(), each rating leads *)
(* to the state nextSrs returns for it                                      *)

InitChain ==
    /\ state = initialSrsState
    /\ clock = At(2024, 0, 30, 15)
    /\ tz \in Zones
    /\ ticks = 0
    /\ last = NoCall
    /\ prev = NoCall
    /\ streak = NoStreak
    /\ heap = <<>>
    /\ held = <<>>
    /\ account = NoUser
    /\ session = NewSession
    /\ path = "/"
    /\ words = <<>>
    /\ tabs = <<>>
    /\ prefs = {}
    /\ devices = <<>>
    /\ attempt = NoAttempt

Transition(rating) ==
    /\ state.intervalDays.v <= MaxInterval * Scale
    /\ state.reps.v < MaxReps * Scale
    /\ state.ease.v <= MaxEase
    /\ last' = CallRecord(state, rating)
    /\ state' = last'.next
    /\ streak' = IF rating = "again" THEN [since |-> 0, lapsed |-> TRUE]
                 ELSE [streak EXCEPT !.since = @ + 1]
    /\ UNCHANGED <<clock, tz, ticks, prev, heapVars, appVars, pageVars>>

NextChain == (\E rating \in Ratings : Transition(rating)) \/ Tick

SpecChain == InitChain /\ [][NextChain]_vars

---------------------------------------------------------------------------
(* nextSrs on stored fields that are not finite numbers: NaN, +Infinity,    *)
(* -Infinity, or missing                                                    *)

AnyInputs == {Num(300), NaN, PosInf, NegInf, Null}

AnyStates ==
    { [intervalDays |-> i, ease |-> e, reps |-> r] :
        i \in AnyInputs, e \in AnyInputs, r \in AnyInputs }

InitAny ==
    /\ state \in AnyStates
    /\ clock = At(2024, 0, 30, 15)
    /\ tz \in Zones
    /\ ticks = 0
    /\ last = NoCall
    /\ prev = NoCall
    /\ streak = NoStreak
    /\ heap = <<>>
    /\ held = <<>>
    /\ account = NoUser
    /\ session = NewSession
    /\ path = "/"
    /\ words = <<>>
    /\ tabs = <<>>
    /\ prefs = {}
    /\ devices = <<>>
    /\ attempt = NoAttempt

SpecAny == InitAny /\ [][Next]_vars

---------------------------------------------------------------------------
(* SrsState objects by reference: callers obtain objects from                *)
(* initialSrsState() and nextSrs(), keep the references, and may assign to   *)
(* the fields of the objects they hold (the fields of SrsState are writable) *)

WriteValues == {Num(700)}

Fields == {"intervalDays", "ease", "reps"}

InitFresh ==
    /\ state = initialSrsState
    /\ clock = At(2024, 0, 30, 15)
    /\ tz = NewYork
    /\ ticks = 0
    /\ last = NoCall
    /\ prev = NoCall
    /\ streak = NoStreak
    /\ heap = <<>>
    /\ held = <<>>
    /\ account = NoUser
    /\ session = NewSession
    /\ path = "/"
    /\ words = <<>>
    /\ tabs = <<>>
    /\ prefs = {}
    /\ devices = <<>>
    /\ attempt = NoAttempt

\* const srs = initialSrsState()
NewState ==
    /\ Len(held) < MaxHeld
    /\ LET a == initialSrsStateRef(heap)
           h == IF a > Len(heap) THEN Append(heap, initialSrsState) ELSE heap
       IN  /\ heap' = h
           /\ held' = Append(held, [ref |-> a, made |-> h[a], seen |-> h[a], fresh |-> TRUE])
    /\ UNCHANGED <<engineVars, appVars, pageVars>>

\* the holder of reference i assigns v to field f of its object
Write(i, f, v) ==
    /\ heap' = [heap EXCEPT ![held[i].ref][f] = v]
    /\ held' = [held EXCEPT ![i].seen = heap'[held[i].ref]]
    /\ UNCHANGED <<engineVars, appVars, pageVars>>

\* const { next } = nextSrs(srs, rating) on the object of reference i: the fields
\* are read, and next is a new object
Rate(i, rating) ==
    /\ Len(held) < MaxHeld
    /\ LET next == nextSrs(heap[held[i].ref], rating).next
       IN  /\ heap' = Append(heap, next)
           /\ held' = Append(held, [ref |-> Len(heap) + 1, made |-> next, seen |-> next,
                                    fresh |-> FALSE])
    /\ UNCHANGED <<engineVars, appVars, pageVars>>

NextFresh ==
    \/ NewState
    \/ \E i \in 1 .. Len(held), f \in Fields, v \in WriteValues : Write(i, f, v)
    \/ \E i \in 1 .. Len(held), rating \in Ratings : Rate(i, rating)

SpecFresh == InitFresh /\ [][NextFresh]_vars

---------------------------------------------------------------------------
(* App.tsx: the routes and their guards.  A view is what a route renders for *)
(* the current session: a page, the loading text, or a <Navigate>.          *)

Content(p) == [kind |-> "content", at |-> p]
Page(p) == [kind |-> "page", at |-> p]
LoadingText == [kind |-> "loading", at |-> ""]
Navigate(href) == [kind |-> "navigate", at |-> href]

RequireAuth(children) ==
    IF loading THEN LoadingText
    ELSE IF user.present THEN children
    ELSE Navigate("/login")

\* mutant of RequireVerified: the verification is not looked at
RequireVerifiedAuthOnly(children) == RequireAuth(children)

RequireVerified(children) ==
    RequireAuth(IF user.present /\ user.emailVerification THEN children
                ELSE Navigate("/verify-required"))

HomeRedirect ==
    IF loading THEN LoadingText
    ELSE Navigate(IF user.present THEN "/library" ELSE "/login")

\* the pages behind RequireVerified; 1 stands for an :id
Protected ==
    { "/library", "/book/1", "/bookshelf/book/1", "/history", "/reading-logs", "/bookshelf",
      "/bookshelf/create", "/bookshelf/book/1/create/readinglog",
      "/bookshelf/book/1/create/historylog", "/bookshelf/book/1/edit", "/favorites",
      "/settings" }

Paths == Protected \cup {"/", "/login", "/verify-email", "/verify-required", "/missing"}

\* <Router>: the view of the route that matches p
Route(p) ==
    CASE p = "/" -> HomeRedirect
      [] p = "/login" -> Page(p)
      [] p = "/verify-email" -> Page(p)
      [] p = "/verify-required" -> RequireAuth(Page(p))
      [] p = "/library" -> RequireVerified(Content(p))
      [] p = "/book/1" -> RequireVerified(Content(p))
      [] p = "/bookshelf/book/1" -> RequireVerified(Content(p))
      [] p = "/history" -> RequireVerified(Content(p))
      [] p = "/reading-logs" -> RequireVerified(Content(p))
      [] p = "/bookshelf" -> RequireVerified(Content(p))
      [] p = "/bookshelf/create" -> RequireVerified(Content(p))
      [] p = "/bookshelf/book/1/create/readinglog" -> RequireVerified(Content(p))
      [] p = "/bookshelf/book/1/create/historylog" -> RequireVerified(Content(p))
      [] p = "/bookshelf/book/1/edit" -> RequireVerified(Content(p))
      [] p = "/favorites" -> RequireVerified(Content(p))
      [] p = "/settings" -> RequireVerified(Content(p))
      [] OTHER -> Navigate("/")

InitApp ==
    /\ state = initialSrsState
    /\ clock = At(2024, 0, 30, 15)
    /\ tz = NewYork
    /\ ticks = 0
    /\ last = NoCall
    /\ prev = NoCall
    /\ streak = NoStreak
    /\ heap = <<>>
    /\ held = <<>>
    /\ account \in Users
    /\ session = NewSession
    /\ path \in Paths
    /\ words = <<>>
    /\ tabs = <<>>
    /\ prefs = {}
    /\ devices = <<>>
    /\ attempt = NoAttempt

\* safeGetUser resolves: the resource is ready with the user, or null
loadEnd ==
    /\ loading
    /\ session' = [session EXCEPT !.state = "ready", !.value = account]
    /\ UNCHANGED <<engineVars, heapVars, pageVars, account, path>>

\* the effect of SessionProvider: setUser(initialUser() ?? null) once ready
effect ==
    /\ session.state = "ready"
    /\ session' = [session EXCEPT !.user = session.value]
    /\ UNCHANGED <<engineVars, heapVars, pageVars, account, path>>

\* refresh(): refetch of the resource
refresh ==
    /\ session' = [session EXCEPT !.state = IF @ = "pending" THEN "pending" ELSE "refreshing"]
    /\ UNCHANGED <<engineVars, heapVars, pageVars, account, path>>

\* login(email, password) from the login page: a session of user u is created,
\* then refresh()
login(u) ==
    /\ path = "/login"
    /\ u.present
    /\ account' = u
    /\ session' = [session EXCEPT !.state = IF @ = "pending" THEN "pending" ELSE "refreshing"]
    /\ UNCHANGED <<engineVars, heapVars, pageVars, path>>

\* logout(): the session is deleted, setUser(null), then refresh()
logout ==
    /\ account' = NoUser
    /\ session' = [session EXCEPT !.user = NoUser,
                                  !.state = IF @ = "pending" THEN "pending" ELSE "refreshing"]
    /\ UNCHANGED <<engineVars, heapVars, pageVars, path>>

\* the user follows the link of the verification email
verify ==
    /\ account = Unverified
    /\ account' = Verified
    /\ UNCHANGED <<engineVars, heapVars, pageVars, session, path>>

\* the route renders a <Navigate href>
Redirect ==
    /\ Route(path).kind = "navigate"
    /\ path' = Route(path).at
    /\ UNCHANGED <<engineVars, heapVars, pageVars, account, session>>

\* the effect of LoginPage: a logged-in user is taken to /library
LoginPage ==
    /\ path = "/login"
    /\ ~loading /\ user.present
    /\ path' = "/library"
    /\ UNCHANGED <<engineVars, heapVars, pageVars, account, session>>

\* the visitor opens a location
Open(p) ==
    /\ path' = p
    /\ UNCHANGED <<engineVars, heapVars, pageVars, account, session>>

NextApp ==
    \/ loadEnd
    \/ effect
    \/ refresh
    \/ \E u \in Users : login(u)
    \/ logout
    \/ verify
    \/ Redirect
    \/ LoginPage
    \/ \E p \in Paths : Open(p)

SpecApp == InitApp /\ [][NextApp]_vars

---------------------------------------------------------------------------
(* pages/Review.tsx and addWord: the words collection and the review pages. *)
(* A datetime is stored as the ISO-8601 string toISOString() gives; to the  *)
(* hour, that string is the tuple of the UTC year, month, day and hour.     *)

\* Date.prototype.toISOString of a valid date
toISOString(d) ==
    <<YearFromTime(d.t), MonthFromTime(d.t) + 1, DateFromTime(d.t), HourFromTime(d.t)>>

\* a missing datetime (lastReviewedAt is optional)
NoIso == <<>>

\* a is before b, as the server orders datetimes
IsoLess(a, b) ==
    \/ a[1] < b[1]
    \/ a[1] = b[1] /\ a[2] < b[2]
    \/ a[1] = b[1] /\ a[2] = b[2] /\ a[3] < b[3]
    \/ a[1] = b[1] /\ a[2] = b[2] /\ a[3] = b[3] /\ a[4] < b[4]

\* Query.lessThanEqual
IsoLeq(a, b) == a = b \/ IsoLess(a, b)

\* session.user()?.$id: "" when no user is logged in
UserIds == {"u1", "u2"}

\* a word document as addWord creates it
NewWord(id, userId, dueAt, srs) ==
    [id |-> id, userId |-> userId, srsDueAt |-> dueAt,
     srsIntervalDays |-> srs.intervalDays, srsEase |-> srs.ease, srsReps |-> srs.reps,
     lastReviewedAt |-> NoIso]

\* Query.limit(50)
Limit == 50

\* mutant of Matching: the srsDueAt condition is left out
MatchingAnyDate(userId, nowIso) ==
    { i \in 1 .. Len(words) : words[i].userId = userId }

\* the documents Query.equal('userId', userId) and
\* Query.lessThanEqual('srsDueAt', nowIso) select
Matching(userId, nowIso) ==
    { i \in 1 .. Len(words) :
        words[i].userId = userId /\ IsoLeq(words[i].srsDueAt, nowIso) }

\* Query.orderAsc('srsDueAt'): the place of document i in the order, a number
\* that grows with the string srsDueAt; documents with equal srsDueAt come in
\* the order of the server, by $id upwards (dir = 1) or downwards (dir = -1)
SortKey(i, dir) ==
    LET a == words[i].srsDueAt
        m == Len(words) + 1
    IN  ((((a[1] - 2000) * 12 + a[2]) * 31 + a[3]) * 24 + a[4]) * (2 * m) + m + dir * i

\* databases.listDocuments with the four queries of the due resource: the
\* selected documents, each with the number of those ordered before it, and of
\* these the first Limit
listDocuments(userId, nowIso, dir) ==
    LET S == Matching(userId, nowIso)
        keyed == { <<SortKey(i, dir), i>> : i \in S }
        ranked == { <<Cardinality({ q \in keyed : q[1] < p[1] }), p[2]>> : p \in keyed }
        n == IF Cardinality(S) < Limit THEN Cardinality(S) ELSE Limit
    IN  [k \in 1 .. n |-> words[(CHOOSE p \in ranked : p[1] = k - 1)[2]]]

\* the words reviewed at or after the instant iso
ReviewedSince(iso) ==
    { i \in 1 .. Len(words) :
        /\ words[i].lastReviewedAt # NoIso
        /\ IsoLeq(iso, words[i].lastReviewedAt) }

\* a review page as it is mounted: due not fetched yet, nothing running
NewTab(userId, env) ==
    [userId |-> userId, env |-> env,
     due |-> <<>>, dueError |-> FALSE, asOf |-> NoIso, seen |-> 0,
     revealed |-> FALSE, busy |-> FALSE, error |-> "",
     pc |-> "idle", rating |-> "none", w |-> 0, now |-> 0,
     next |-> initialSrsState, dueAt |-> InvalidDate, data |-> <<>>]

\* the fetcher of the due resource, run now by page tb; seen records how many
\* documents the collection held when the query ran
fetched(tb, dir) ==
    IF tb.userId = ""
        THEN [tb EXCEPT !.due = <<>>, !.dueError = FALSE, !.asOf = NoIso, !.seen = 0]
    ELSE IF ~tb.env
        THEN [tb EXCEPT !.due = <<>>, !.dueError = TRUE, !.asOf = NoIso, !.seen = 0]
    ELSE LET nowIso == toISOString(DateOf(clock))
         IN  [tb EXCEPT !.due = listDocuments(tb.userId, nowIso, dir),
                        !.dueError = FALSE, !.asOf = nowIso, !.seen = Len(words)]

\* the locals of a rate call that has returned
returned(tb) ==
    [tb EXCEPT !.pc = "idle", !.rating = "none", !.w = 0, !.now = 0,
               !.next = initialSrsState, !.dueAt = InvalidDate, !.data = <<>>]

\* mutant of ended: the busy flag is not reset
endedKeepsBusy(tb, message) == [returned(tb) EXCEPT !.error = message, !.busy = TRUE]

\* the result a rate call ends with: setError(message), and finally setBusy(false)
ended(tb, message) == [returned(tb) EXCEPT !.error = message, !.busy = FALSE]

\* the words at the start: one of u1 that is due and one of u2
StartWords ==
    LET t0 == At(2024, 2, 9, 6)
    IN  << [NewWord(1, "u1", toISOString(DateOf(t0 - 30)),
                    [intervalDays |-> Num(100), ease |-> Num(250), reps |-> Num(100)])
               EXCEPT !.lastReviewedAt = toISOString(DateOf(t0 - 54))],
           [NewWord(2, "u2", toISOString(DateOf(t0 - 40)),
                    [intervalDays |-> Num(300), ease |-> Num(230), reps |-> Num(200)])
               EXCEPT !.lastReviewedAt = toISOString(DateOf(t0 - 112))] >>

\* a collection with a full page of due words of u1, reviewed before
Backlog ==
    LET t0 == At(2024, 2, 9, 6)
    IN  [i \in 1 .. Limit |->
            [NewWord(i, "u1", toISOString(DateOf(t0 + i - Limit - 1)),
                     [intervalDays |-> Num(100), ease |-> Num(250), reps |-> Num(100)])
                EXCEPT !.lastReviewedAt = toISOString(DateOf(t0 + i - Limit - 25))]]

InitReview ==
    /\ state = initialSrsState
    /\ clock = At(2024, 2, 9, 6)
    /\ tz = NewYork
    /\ ticks = 0
    /\ last = NoCall
    /\ prev = NoCall
    /\ streak = NoStreak
    /\ heap = <<>>
    /\ held = <<>>
    /\ account = NoUser
    /\ session = NewSession
    /\ path = "/"
    /\ words = StartWords
    /\ \E env \in BOOLEAN : tabs = <<NewTab("u1", env)>>
    /\ prefs = {}
    /\ devices = <<>>
    /\ attempt = NoAttempt

\* the due resource is fetched: on mount, by the Refresh button
fetch(t) ==
    /\ tabs[t].pc = "idle"
    /\ \E dir \in {1, -1} : tabs' = [tabs EXCEPT ![t] = fetched(@, dir)]
    /\ UNCHANGED <<engineVars, heapVars, appVars, words, prefs, devices, attempt>>

\* the Reveal button
reveal(t) ==
    /\ tabs[t].pc = "idle" /\ ~tabs[t].revealed
    /\ ~tabs[t].dueError /\ Len(tabs[t].due) > 0
    /\ tabs' = [tabs EXCEPT ![t].revealed = TRUE]
    /\ UNCHANGED <<engineVars, heapVars, appVars, words, prefs, devices, attempt>>

\* rate(rating), up to the call of nextSrs; the four buttons are rendered once
\* the current word is revealed
rateBegin(t, rating) ==
    /\ tabs[t].pc = "idle"
    /\ \E iso \in {toISOString(DateOf(clock - ticks))} :
           Cardinality(ReviewedSince(iso)) < MaxReviews
    /\ tabs[t].revealed \/ tabs[t].dueError \/ Len(tabs[t].due) = 0
    /\ LET tb == tabs[t]
       IN  tabs' = [tabs EXCEPT ![t] =
               IF tb.dueError
                   THEN ended(tb, "Missing words collection env vars (see .env.example)")
               ELSE IF Len(tb.due) = 0 THEN ended(tb, "")
               ELSE IF tb.userId = "" THEN ended(tb, "Not logged in")
               ELSE IF ~tb.env THEN ended(tb, "Missing words env vars")
               ELSE LET w == tb.due[1]
                        r == nextSrs([intervalDays |-> w.srsIntervalDays,
                                      ease |-> w.srsEase, reps |-> w.srsReps], rating)
                    IN  [tb EXCEPT !.error = "", !.busy = TRUE, !.pc = "computed",
                                   !.rating = rating, !.w = w.id, !.now = clock,
                                   !.next = r.next, !.dueAt = r.dueAt]]
    /\ UNCHANGED <<engineVars, heapVars, appVars, words, prefs, devices, attempt>>

\* rate: the data of updateDocument is built and the request is sent;
\* toISOString throws on an invalid date
rateSend(t) ==
    /\ tabs[t].pc = "computed"
    /\ LET tb == tabs[t]
       IN  tabs' = [tabs EXCEPT ![t] =
               IF ~tb.dueAt.valid THEN ended(tb, "Invalid time value")
               ELSE [tb EXCEPT !.pc = "sent",
                               !.data = [srsIntervalDays |-> tb.next.intervalDays,
                                         srsEase |-> tb.next.ease,
                                         srsReps |-> tb.next.reps,
                                         srsDueAt |-> toISOString(tb.dueAt),
                                         lastReviewedAt |-> toISOString(DateOf(clock))]]]
    /\ UNCHANGED <<engineVars, heapVars, appVars, words, prefs, devices, attempt>>

\* mutant of updateDocument: srsReps is left out of the update
updateDocumentNoReps(t) ==
    /\ tabs[t].pc = "sent"
    /\ LET d == tabs[t].data
       IN  words' = [words EXCEPT ![tabs[t].w] =
               [@ EXCEPT !.srsIntervalDays = d.srsIntervalDays, !.srsEase = d.srsEase,
                         !.srsDueAt = d.srsDueAt,
                         !.lastReviewedAt = d.lastReviewedAt]]
    /\ tabs' = [tabs EXCEPT ![t].pc = "updated"]
    /\ UNCHANGED <<engineVars, heapVars, appVars, prefs, devices, attempt>>

\* mutant of updateDocument: the server keeps the later of the stored and the
\* sent srsDueAt
updateDocumentKeepsLaterDue(t) ==
    /\ tabs[t].pc = "sent"
    /\ LET d == tabs[t].data
       IN  words' = [words EXCEPT ![tabs[t].w] =
               [@ EXCEPT !.srsIntervalDays = d.srsIntervalDays, !.srsEase = d.srsEase,
                         !.srsReps = d.srsReps,
                         !.srsDueAt = IF IsoLess(d.srsDueAt, @) THEN @ ELSE d.srsDueAt,
                         !.lastReviewedAt = d.lastReviewedAt]]
    /\ tabs' = [tabs EXCEPT ![t].pc = "updated"]
    /\ UNCHANGED <<engineVars, heapVars, appVars, prefs, devices, attempt>>

\* databases.updateDocument succeeds: the server stores the five fields
updateDocument(t) ==
    /\ tabs[t].pc = "sent"
    /\ LET d == tabs[t].data
       IN  words' = [words EXCEPT ![tabs[t].w] =
               [@ EXCEPT !.srsIntervalDays = d.srsIntervalDays, !.srsEase = d.srsEase,
                         !.srsReps = d.srsReps, !.srsDueAt = d.srsDueAt,
                         !.lastReviewedAt = d.lastReviewedAt]]
    /\ tabs' = [tabs EXCEPT ![t].pc = "updated"]
    /\ UNCHANGED <<engineVars, heapVars, appVars, prefs, devices, attempt>>

\* databases.updateDocument rejects: catch and finally
updateFails(t) ==
    /\ tabs[t].pc = "sent"
    /\ tabs' = [tabs EXCEPT ![t] = ended(@, "Failed to update review")]
    /\ UNCHANGED <<engineVars, heapVars, appVars, words, prefs, devices, attempt>>

\* rate, after the update: setRevealed(false), await refetch(), setBusy(false)
rateDone(t) ==
    /\ tabs[t].pc = "updated"
    /\ \E dir \in {1, -1} :
           tabs' = [tabs EXCEPT ![t] =
               [returned(fetched(@, dir)) EXCEPT !.revealed = FALSE, !.busy = FALSE]]
    /\ UNCHANGED <<engineVars, heapVars, appVars, words, prefs, devices, attempt>>

\* the user of the page logs out: session.user() is null from now on
signOut(t) ==
    /\ tabs[t].userId # ""
    /\ tabs' = [tabs EXCEPT ![t].userId = ""]
    /\ UNCHANGED <<engineVars, heapVars, appVars, words, prefs, devices, attempt>>

\* mutant of addWord: the new word is due a day after its creation
addWordDueNextDay(userId) ==
    /\ \E n \in {Len(StartWords), Len(Backlog)} : Len(words) - n \in 0 .. (MaxWords - 1)
    /\ words' = Append(words, NewWord(Len(words) + 1, userId,
                                       toISOString(DateOf(clock + HoursPerDay)),
                                       initialSrsState))
    /\ UNCHANGED <<engineVars, heapVars, appVars, tabs, prefs, devices, attempt>>

\* addWord: a word of userId is created with initialSrsState(), due now
addWord(userId) ==
    /\ \E n \in {Len(StartWords), Len(Backlog)} : Len(words) - n \in 0 .. (MaxWords - 1)
    /\ words' = Append(words, NewWord(Len(words) + 1, userId, toISOString(DateOf(clock)),
                                       initialSrsState))
    /\ UNCHANGED <<engineVars, heapVars, appVars, tabs, prefs, devices, attempt>>

NextReview ==
    \/ \E t \in 1 .. Len(tabs) : fetch(t)
    \/ \E t \in 1 .. Len(tabs) : reveal(t)
    \/ \E t \in 1 .. Len(tabs), rating \in Ratings : rateBegin(t, rating)
    \/ \E t \in 1 .. Len(tabs) : rateSend(t)
    \/ \E t \in 1 .. Len(tabs) : updateDocument(t)
    \/ \E t \in 1 .. Len(tabs) : updateFails(t)
    \/ \E t \in 1 .. Len(tabs) : rateDone(t)
    \/ \E t \in 1 .. Len(tabs) : signOut(t)
    \/ \E userId \in UserIds : addWord(userId)
    \/ Tick

SpecReview == InitReview /\ [][NextReview]_vars

\* two review pages of u1 open at once, over the words at the start
InitTabs ==
    /\ state = initialSrsState
    /\ clock = At(2024, 2, 9, 6)
    /\ tz = NewYork
    /\ ticks = 0
    /\ last = NoCall
    /\ prev = NoCall
    /\ streak = NoStreak
    /\ heap = <<>>
    /\ held = <<>>
    /\ account = NoUser
    /\ session = NewSession
    /\ path = "/"
    /\ words = StartWords
    /\ tabs = <<NewTab("u1", TRUE), NewTab("u1", TRUE)>>
    /\ prefs = {}
    /\ devices = <<>>
    /\ attempt = NoAttempt

NextTabs ==
    \/ \E t \in 1 .. Len(tabs) : fetch(t)
    \/ \E t \in 1 .. Len(tabs) : reveal(t)
    \/ \E t \in 1 .. Len(tabs), rating \in Ratings : rateBegin(t, rating)
    \/ \E t \in 1 .. Len(tabs) : rateSend(t)
    \/ \E t \in 1 .. Len(tabs) : updateDocument(t)
    \/ \E t \in 1 .. Len(tabs) : rateDone(t)
    \/ Tick

SpecTabs == InitTabs /\ [][NextTabs]_vars

\* the review page of u1 with two of its words due, one of them never reviewed;
\* no word is added, every write succeeds and the user keeps rating
DrainWords ==
    Append(StartWords,
           NewWord(3, "u1", toISOString(DateOf(At(2024, 2, 9, 6) - 2)), initialSrsState))

InitDrain ==
    /\ state = initialSrsState
    /\ clock = At(2024, 2, 9, 6)
    /\ tz = NewYork
    /\ ticks = 0
    /\ last = NoCall
    /\ prev = NoCall
    /\ streak = NoStreak
    /\ heap = <<>>
    /\ held = <<>>
    /\ account = NoUser
    /\ session = NewSession
    /\ path = "/"
    /\ words = DrainWords
    /\ tabs = <<NewTab("u1", TRUE)>>
    /\ prefs = {}
    /\ devices = <<>>
    /\ attempt = NoAttempt

NextDrain ==
    \/ \E t \in 1 .. Len(tabs) : fetch(t)
    \/ \E t \in 1 .. Len(tabs) : reveal(t)
    \/ \E t \in 1 .. Len(tabs), rating \in Ratings : rateBegin(t, rating)
    \/ \E t \in 1 .. Len(tabs) : rateSend(t)
    \/ \E t \in 1 .. Len(tabs) : updateDocument(t)
    \/ \E t \in 1 .. Len(tabs) : rateDone(t)
    \/ Tick

\* the resource is fetched on mount, a started rate call runs on, and the user
\* reveals and rates the word that is presented
FairDrain ==
    /\ WF_vars(\E t \in 1 .. Len(tabs) : fetch(t))
    /\ WF_vars(\E t \in 1 .. Len(tabs) : reveal(t))
    /\ WF_vars(\E t \in 1 .. Len(tabs), rating \in Ratings : rateBegin(t, rating))
    /\ WF_vars(\E t \in 1 .. Len(tabs) : rateSend(t))
    /\ WF_vars(\E t \in 1 .. Len(tabs) : updateDocument(t))
    /\ WF_vars(\E t \in 1 .. Len(tabs) : rateDone(t))

SpecDrain == InitDrain /\ [][NextDrain]_vars /\ FairDrain

\* the review page of u1 over a collection that holds a full page of due words
InitBacklog ==
    /\ state = initialSrsState
    /\ clock = At(2024, 2, 9, 6)
    /\ tz = NewYork
    /\ ticks = 0
    /\ last = NoCall
    /\ prev = NoCall
    /\ streak = NoStreak
    /\ heap = <<>>
    /\ held = <<>>
    /\ account = NoUser
    /\ session = NewSession
    /\ path = "/"
    /\ words = Backlog
    /\ tabs = <<NewTab("u1", TRUE)>>
    /\ prefs = {}
    /\ devices = <<>>
    /\ attempt = NoAttempt

NextBacklog ==
    \/ \E t \in 1 .. Len(tabs) : fetch(t)
    \/ \E t \in 1 .. Len(tabs) : reveal(t)
    \/ \E t \in 1 .. Len(tabs), rating \in Ratings : rateBegin(t, rating)
    \/ \E t \in 1 .. Len(tabs) : rateSend(t)
    \/ \E t \in 1 .. Len(tabs) : updateDocument(t)
    \/ \E t \in 1 .. Len(tabs) : rateDone(t)
    \/ \E userId \in UserIds : addWord(userId)

SpecBacklog == InitBacklog /\ [][NextBacklog]_vars

---------------------------------------------------------------------------
(* context/session.tsx, login: the calls one login makes.  An error carries  *)
(* the type and the lower-cased message of the exception, the message as its *)
(* sequence of words; kind says what the server meant by it.                 *)

\* the exceptions account.createEmailPasswordSession can throw
Errors ==
    { [kind |-> "session_exists", type |-> "user_session_already_exists",
       message |-> <<"creation", "of", "a", "session", "is", "prohibited",
                     "when", "a", "session", "is", "active">>],
      [kind |-> "session_exists", type |-> "user_session_already_exists",
       message |-> <<>>],
      [kind |-> "credentials", type |-> "user_invalid_credentials",
       message |-> <<"invalid", "credentials", "please", "check", "the", "email",
                     "and", "password">>],
      [kind |-> "rate_limit", type |-> "general_rate_limit_exceeded",
       message |-> <<"rate", "limit", "for", "the", "current", "endpoint", "has",
                     "been", "exceeded">>],
      [kind |-> "network", type |-> "", message |-> <<"failed", "to", "fetch">>] }

\* String.prototype.includes, on words
includes(text, phrase) ==
    \E i \in 1 .. (Len(text) - Len(phrase) + 1) :
        SubSeq(text, i, i + Len(phrase) - 1) = phrase

\* mutant of isActiveSessionError: every error counts as an active session
isActiveSessionErrorAny(err) == err # NoError

isActiveSessionError(err) ==
    LET message == err.message
        type == err.type
    IN  \/ includes(message, <<"active", "session">>)
        \/ includes(message, <<"session">>) /\ includes(message, <<"active">>)
        \/ type = "user_session_already_exists"

\* one API call of a login, with the error it threw
Made(op, err) == [op |-> op, err |-> err]

InitLogin ==
    /\ state = initialSrsState
    /\ clock = At(2024, 0, 30, 15)
    /\ tz = NewYork
    /\ ticks = 0
    /\ last = NoCall
    /\ prev = NoCall
    /\ streak = NoStreak
    /\ heap = <<>>
    /\ held = <<>>
    /\ account \in Users
    /\ session = NewSession
    /\ path = "/login"
    /\ words = <<>>
    /\ tabs = <<>>
    /\ prefs = {}
    /\ devices = <<>>
    /\ attempt = NoAttempt

\* login(email, password) is called with the credentials of user u: setError(null)
loginCall(u) ==
    /\ attempt.pc = "none"
    /\ u.present
    /\ attempt' = [NoAttempt EXCEPT !.pc = "create", !.as = u]
    /\ UNCHANGED <<engineVars, heapVars, appVars, words, tabs, prefs, devices>>

\* account.createEmailPasswordSession resolves: the server had no session for
\* this client and has one of the user now
createEmailPasswordSession ==
    /\ attempt.pc \in {"create", "retry"}
    /\ ~account.present
    /\ account' = attempt.as
    /\ attempt' = [attempt EXCEPT !.pc = "refresh",
                                  !.calls = Append(@, Made("create", NoError))]
    /\ UNCHANGED <<engineVars, heapVars, session, path, words, tabs, prefs, devices>>

\* account.createEmailPasswordSession rejects with err; the server answers
\* session_exists only while it has a session for this client.  The first
\* rejection is rethrown unless isActiveSessionError(err); the retry's always is
createFails(err) ==
    /\ attempt.pc \in {"create", "retry"}
    /\ err.kind = "session_exists" => account.present
    /\ attempt' =
           IF attempt.pc = "create" /\ isActiveSessionError(err)
               THEN [attempt EXCEPT !.pc = "delete",
                                    !.calls = Append(@, Made("create", err))]
               ELSE [attempt EXCEPT !.pc = "none", !.outcome = "rejected", !.err = err,
                                    !.calls = Append(@, Made("create", err))]
    /\ UNCHANGED <<engineVars, heapVars, appVars, words, tabs, prefs, devices>>

\* safeDeleteCurrentSession: account.deleteSession('current'), errors ignored
safeDeleteCurrentSession ==
    /\ attempt.pc = "delete"
    /\ \E ok \in BOOLEAN :
           /\ account' = IF ok THEN NoUser ELSE account
           /\ attempt' = [attempt EXCEPT !.pc = "retry",
                 !.calls = Append(@, Made("delete",
                              IF ok THEN NoError
                              ELSE [kind |-> "network", type |-> "",
                                    message |-> <<"failed", "to", "fetch">>]))]
    /\ UNCHANGED <<engineVars, heapVars, session, path, words, tabs, prefs, devices>>

\* await refresh(): the resource is refetched and login resolves
loginRefresh ==
    /\ attempt.pc = "refresh"
    /\ session' = [session EXCEPT !.state = IF @ = "pending" THEN "pending" ELSE "refreshing"]
    /\ attempt' = [attempt EXCEPT !.pc = "none", !.outcome = "resolved",
                                  !.calls = Append(@, Made("refresh", NoError))]
    /\ UNCHANGED <<engineVars, heapVars, account, path, words, tabs, prefs, devices>>

\* the session of this client ends on the server: it expires or is deleted
\* from another device
sessionEnds ==
    /\ account.present
    /\ account' = NoUser
    /\ UNCHANGED <<engineVars, heapVars, session, path, pageVars>>

NextLogin ==
    \/ \E u \in Users : loginCall(u)
    \/ createEmailPasswordSession
    \/ \E err \in Errors : createFails(err)
    \/ safeDeleteCurrentSession
    \/ loginRefresh
    \/ sessionEnds
    \/ loadEnd
    \/ effect

SpecLogin == InitLogin /\ [][NextLogin]_vars

---------------------------------------------------------------------------
(* lib/favorites.ts: the favorite books of one account, kept in the account's *)
(* prefs under FAVORITES_PREF_KEY and cached in each device's localStorage.   *)

BookIds == {"x", "y"}

\* the result of a toggle that has not been made
NoToggle == [bookId |-> "", has |-> FALSE]

\* a device of the account: its localStorage entry, the position and locals of
\* a running toggleFavoriteBookIdCloud call, what its last call did, and what
\* the last calls of the devices had done when the running call was made
NewDevice(ids) ==
    [local |-> ids, pc |-> "idle", bookId |-> "", read |-> {}, cloud |-> {},
     current |-> {}, done |-> NoToggle, began |-> <<>>]

\* the locals of a call that has returned or rejected
settled(dv) ==
    [dv EXCEPT !.pc = "idle", !.bookId = "", !.read = {}, !.cloud = {}, !.current = {},
               !.began = <<>>]

\* toggleFavoriteBookId's flip of one id
Flip(ids, bookId) == IF bookId \in ids THEN ids \ {bookId} ELSE ids \cup {bookId}

InitFav ==
    /\ state = initialSrsState
    /\ clock = At(2024, 2, 9, 6)
    /\ tz = NewYork
    /\ ticks = 0
    /\ last = NoCall
    /\ prev = NoCall
    /\ streak = NoStreak
    /\ heap = <<>>
    /\ held = <<>>
    /\ account = NoUser
    /\ session = NewSession
    /\ path = "/"
    /\ words = <<>>
    /\ tabs = <<>>
    /\ prefs = {"x"}
    /\ devices = <<NewDevice({"x"}), NewDevice({"x"})>>
    /\ attempt = NoAttempt

\* toggleFavoriteBookIdCloud(bookId) is called; migrateFavoritesToCloud reads
\* the local favorites
toggleFavoriteBookIdCloud(d, bookId) ==
    /\ devices[d].pc = "idle"
    /\ devices' = [devices EXCEPT ![d].pc = "migrate", ![d].bookId = bookId,
                                  ![d].read = devices[d].local,
                                  ![d].began = [a \in 1 .. Len(devices) |->
                                                   IF devices[a].pc = "idle"
                                                       THEN devices[a].done ELSE NoToggle]]
    /\ UNCHANGED <<engineVars, heapVars, appVars, words, tabs, prefs, attempt>>

\* migrateFavoritesToCloud: loadFavoriteBookIdsCloud answers (the local
\* favorites when account.get() fails), and the merge is compared with it
loadFavoriteBookIdsCloud(d) ==
    /\ devices[d].pc = "migrate"
    /\ \E ok \in BOOLEAN :
           LET dv == devices[d]
               cloud == IF ok THEN prefs ELSE dv.local
               merged == cloud \cup dv.read
           IN  devices' = [devices EXCEPT ![d] =
                   IF merged # cloud
                       THEN [dv EXCEPT !.pc = "merge", !.cloud = cloud, !.current = merged]
                       ELSE [dv EXCEPT !.pc = "save", !.cloud = cloud, !.current = cloud,
                                       !.local = cloud]]
    /\ UNCHANGED <<engineVars, heapVars, appVars, words, tabs, prefs, attempt>>

\* migrateFavoritesToCloud: saveFavoriteBookIdsCloud(merged)
saveMerged(d) ==
    /\ devices[d].pc = "merge"
    /\ \E ok \in BOOLEAN :
           /\ prefs' = IF ok THEN devices[d].current ELSE prefs
           /\ devices' = [devices EXCEPT ![d].pc = "save", ![d].local = devices[d].current]
    /\ UNCHANGED <<engineVars, heapVars, appVars, words, tabs, attempt>>

\* toggleFavoriteBookIdCloud: the id is flipped and saveFavoriteBookIdsCloud(next)
saveNext(d) ==
    /\ devices[d].pc = "save"
    /\ \E ok \in BOOLEAN :
           LET next == Flip(devices[d].current, devices[d].bookId)
           IN  /\ prefs' = IF ok THEN next ELSE prefs
               /\ devices' = [devices EXCEPT ![d] =
                      [settled(@) EXCEPT !.local = next,
                                         !.done = [bookId |-> devices[d].bookId,
                                                   has |-> devices[d].bookId \in next]]]
    /\ UNCHANGED <<engineVars, heapVars, appVars, words, tabs, attempt>>

\* account.updatePrefs rejects: the call rejects with nothing stored
updatePrefsFails(d) ==
    /\ devices[d].pc \in {"merge", "save"}
    /\ devices' = [devices EXCEPT ![d] = settled(@)]
    /\ UNCHANGED <<engineVars, heapVars, appVars, words, tabs, prefs, attempt>>

NextFav ==
    \/ \E d \in 1 .. Len(devices), bookId \in BookIds : toggleFavoriteBookIdCloud(d, bookId)
    \/ \E d \in 1 .. Len(devices) : loadFavoriteBookIdsCloud(d)
    \/ \E d \in 1 .. Len(devices) : saveMerged(d)
    \/ \E d \in 1 .. Len(devices) : saveNext(d)
    \/ \E d \in 1 .. Len(devices) : updatePrefsFails(d)

SpecFav == InitFav /\ [][NextFav]_vars

---------------------------------------------------------------------------
(* Vocabulary of the claims *)

\* nextSrs has been called
Called == last.rating # "none"

Larger(a, b) == IF a > b THEN a ELSE b

\* a stored intervalDays or reps read as the data model means it, in hundredths:
\* missing or negative is 0, a fraction is floored
Whole(x) == IF x.k # "num" \/ x.v < 0 THEN 0 ELSE (x.v \div Scale) * Scale

\* a stored ease in hundredths, 2.5 when it is missing
EaseIn(st) == IF st.ease.k = "num" THEN st.ease.v ELSE 250

\* a finite, whole, non-negative number
IsCount(x) == x.k = "num" /\ x.v >= 0 /\ x.v % Scale = 0

\* the word a review page presents: current(), shown once due has loaded
Presents(t) == ~tabs[t].dueError /\ Len(tabs[t].due) > 0
Current(t) == tabs[t].due[1]

\* page t's write-back is stored in this step
Stores(t) == tabs[t].pc = "sent" /\ tabs'[t].pc = "updated"

\* what nextSrs gave page t's rate call for the word it presents
Rated(t) ==
    nextSrs([intervalDays |-> Current(t).srsIntervalDays, ease |-> Current(t).srsEase,
             reps |-> Current(t).srsReps], tabs[t].rating)

\* the stored record of page t's word after the step carries the transition's
\* next state and due date, and no other record differs
StoredNext(t) ==
    LET w == tabs[t].w
    IN  /\ w = Current(t).id
        /\ tabs[t].next = Rated(t).next
        /\ words'[w].srsIntervalDays = tabs[t].next.intervalDays
        /\ words'[w].srsEase = tabs[t].next.ease
        /\ words'[w].srsReps = tabs[t].next.reps
        /\ words'[w].srsDueAt = toISOString(tabs[t].dueAt)
        /\ tabs[t].dueAt = addDays(DateOf(tabs[t].now), tabs[t].next.intervalDays)
        /\ words'[w].id = words[w].id /\ words'[w].userId = words[w].userId
        /\ Len(words') = Len(words)
        /\ \A i \in 1 .. Len(words) : i # w => words'[i] = words[i]

\* the clock reading as an ISO string
NowIso == toISOString(DateOf(clock))

\* page t's rate call refetches the due list in this step
Refetches(t) == tabs[t].pc = "updated" /\ tabs'[t].pc = "idle"

\* page t shows 'All caught up': the list has loaded and is empty
CaughtUp(t) ==
    /\ tabs[t].pc = "idle" /\ ~tabs[t].dueError
    /\ tabs[t].asOf # NoIso /\ Len(tabs[t].due) = 0

\* page t's rate call ends in this step without having stored anything: its
\* write-back or the building of its request failed, or it ended at once
Fails(t) == tabs[t].pc \in {"computed", "sent"} /\ tabs'[t].pc = "idle"
EndsAtOnce(t) ==
    /\ tabs[t].pc = "idle" /\ tabs'[t].pc = "idle"
    /\ tabs'[t].error # tabs[t].error

\* word i has not been reviewed since it was created
Fresh(i) == words[i].lastReviewedAt = NoIso

\* page t's latest query ran for the owner of word i, after the word was created
QueriedFor(t, i) ==
    /\ i <= tabs[t].seen /\ ~tabs[t].dueError
    /\ words[i].userId = tabs[t].userId

\* word i is in the list page t holds
Listed(t, i) == \E k \in 1 .. Len(tabs[t].due) : tabs[t].due[k].id = i

\* a word is created in this step, as addWord stores it
Creates ==
    Len(words') = Len(words) + 1 =>
        LET w == words'[Len(words')]
        IN  /\ w.srsIntervalDays = Num(0) /\ w.srsEase = Num(250) /\ w.srsReps = Num(0)
            /\ w.srsDueAt = NowIso /\ w.lastReviewedAt = NoIso


\* a state that already has the shape the data model gives it
IsNormal(st) ==
    /\ st.intervalDays.k = "num" /\ st.intervalDays.v >= 0 /\ st.intervalDays.v % Scale = 0
    /\ st.reps.k = "num" /\ st.reps.v >= 0 /\ st.reps.v % Scale = 0
    /\ st.ease.k = "num"

\* now and dueAt of the latest call in local time, and the interval it returned in days
NowLocal == LocalTime(tz, last.now)
DueLocal == LocalTime(tz, last.dueAt.t)
DueDays == last.next.intervalDays.v \div Scale

\* the interval in days a rating gives a whole, non-negative interval of i days
StepDays(i, rating) ==
    CASE rating = "again" -> 1
      [] rating = "hard" -> IF i = 0 THEN 1 ELSE Larger(1, (12 * i + 5) \div 10)
      [] rating = "good" -> IF i = 0 THEN 1 ELSE Larger(1, (5 * i + 1) \div 2)
      [] OTHER -> IF i = 0 THEN 2 ELSE Larger(2, 3 * i)

\* no instant of the zone shows local time tl (a daylight-saving gap)
SkippedLocal(z, tl) == \A u \in (tl - 14) .. (tl + 12) : LocalTime(z, u) # tl

---------------------------------------------------------------------------
(* C1 .. C10 *)

\* C1: for every input state, rating 'again' returns reps = 0, intervalDays = 1
\* (whatever the prior interval) and ease = max(1.3, ease - 0.2), the ease being
\* 2.5 when the stored one is missing.
C1_AgainResets ==
    last.rating = "again" =>
        /\ last.next.reps = Num(0)
        /\ last.next.intervalDays = Num(100)
        /\ last.next.ease = Num(Larger(130, EaseIn(last.state) - 20))

C1_Witness ==
    /\ last.rating = "again"
    /\ last.state = [intervalDays |-> Num(1000), ease |-> Num(140), reps |-> Num(500)]
    /\ last.next = [intervalDays |-> Num(100), ease |-> Num(130), reps |-> Num(0)]

\* C2: from initialSrsState(), through any sequence of ratings, the ease of every
\* state reached is at least 1.3.
C2_EaseFloorOnChain == state.ease.k = "num" /\ state.ease.v >= 130

C2_Witness ==
    /\ last.rating = "again"
    /\ last.state.ease.v > 130 /\ last.state.ease.v < 150
    /\ state.ease = Num(130)

C4_Good ==
    last.rating = "good" /\ IsNormal(last.state) =>
        LET i == last.state.intervalDays.v \div Scale
        IN  /\ last.next.intervalDays =
                   Num(Scale * (IF i = 0 THEN 1 ELSE Larger(1, (5 * i + 1) \div 2)))
            /\ last.next.ease = last.state.ease
            /\ last.next.reps = Num(last.state.reps.v + Scale)

C4_Witness ==
    /\ last.rating = "good"
    /\ last.state = [intervalDays |-> Num(100), ease |-> Num(250), reps |-> Num(100)]
    /\ last.next = [intervalDays |-> Num(300), ease |-> Num(250), reps |-> Num(200)]

\* C5: on a normalized state 'hard' returns intervalDays 1 if it was 0 and otherwise
\* max(1, round(1.2 * intervalDays)), ease max(1.3, ease - 0.15) and reps + 1.
C5_Hard ==
    last.rating = "hard" /\ IsNormal(last.state) =>
        LET i == last.state.intervalDays.v \div Scale
        IN  /\ last.next.intervalDays =
                   Num(Scale * (IF i = 0 THEN 1 ELSE Larger(1, (12 * i + 5) \div 10)))
            /\ last.next.ease = Num(Larger(130, last.state.ease.v - 15))
            /\ last.next.reps = Num(last.state.reps.v + Scale)

C5_Witness ==
    /\ last.rating = "hard"
    /\ last.state = [intervalDays |-> Num(300), ease |-> Num(140), reps |-> Num(100)]
    /\ last.next = [intervalDays |-> Num(400), ease |-> Num(130), reps |-> Num(200)]

\* C6: on a normalized state 'easy' returns intervalDays 2 if it was 0 and otherwise
\* max(2, round(3 * intervalDays)), ease + 0.15 with no upper clamp and reps + 1;
\* {10, 2.5, 5} gives {30, 2.65, 6}.
C6_Easy ==
    last.rating = "easy" /\ IsNormal(last.state) =>
        LET i == last.state.intervalDays.v \div Scale
        IN  /\ last.next.intervalDays = Num(Scale * (IF i = 0 THEN 2 ELSE Larger(2, 3 * i)))
            /\ last.next.ease = Num(last.state.ease.v + 15)
            /\ last.next.reps = Num(last.state.reps.v + Scale)

C6_Witness ==
    /\ last.rating = "easy"
    /\ last.state = [intervalDays |-> Num(1000), ease |-> Num(250), reps |-> Num(500)]
    /\ last.next = [intervalDays |-> Num(3000), ease |-> Num(265), reps |-> Num(600)]

\* C7: from {0, 2.5, 0} one call yields good -> {1, 2.5, 1}, easy -> {2, 2.65, 1},
\* hard -> {1, 2.35, 1}, again -> {1, 2.3, 0}.
C7_FromInitial ==
    Called /\ last.state = [intervalDays |-> Num(0), ease |-> Num(250), reps |-> Num(0)] =>
        last.next =
            CASE last.rating = "good" ->
                     [intervalDays |-> Num(100), ease |-> Num(250), reps |-> Num(100)]
              [] last.rating = "easy" ->
                     [intervalDays |-> Num(200), ease |-> Num(265), reps |-> Num(100)]
              [] last.rating = "hard" ->
                     [intervalDays |-> Num(100), ease |-> Num(235), reps |-> Num(100)]
              [] OTHER ->
                     [intervalDays |-> Num(100), ease |-> Num(230), reps |-> Num(0)]

C7_Witness ==
    /\ last.rating = "hard"
    /\ last.state = initialSrsState
    /\ last.next = [intervalDays |-> Num(100), ease |-> Num(235), reps |-> Num(100)]

\* C8 as claimed: dueAt is now plus exactly next.intervalDays calendar days, the
\* time of day preserved, months and years rolled over (Jan 30 + 3 days = Feb 2).
C8_Original ==
    Called =>
        /\ last.dueAt.valid
        /\ Day(DueLocal) = Day(NowLocal) + DueDays
        /\ TimeWithinDay(DueLocal) = TimeWithinDay(NowLocal)
        /\ (MonthFromTime(NowLocal) = 0 /\ DateFromTime(NowLocal) = 30 /\ DueDays = 3
               => MonthFromTime(DueLocal) = 1 /\ DateFromTime(DueLocal) = 2)

\* C8 amended: in local time dueAt falls on the calendar day exactly
\* next.intervalDays days after now's, months and years rolled over (Jan 30 + 3
\* days = Feb 2), at now's time of day, except that when the zone skips that time
\* on that day (the start of daylight saving) dueAt is one hour later.
C8_Amended ==
    Called =>
        LET want == MakeDate(Day(NowLocal) + DueDays, TimeWithinDay(NowLocal))
        IN  /\ last.dueAt.valid
            /\ Day(DueLocal) = Day(NowLocal) + DueDays
            /\ DueLocal = IF SkippedLocal(tz, want) THEN want + 1 ELSE want
            /\ (MonthFromTime(NowLocal) = 0 /\ DateFromTime(NowLocal) = 30 /\ DueDays = 3
                   => MonthFromTime(DueLocal) = 1 /\ DateFromTime(DueLocal) = 2)

C8_Witness ==
    /\ Called
    /\ MonthFromTime(NowLocal) = 0 /\ DateFromTime(NowLocal) = 30
    /\ DueDays = 3
    /\ YearFromTime(DueLocal) = YearFromTime(NowLocal)
    /\ MonthFromTime(DueLocal) = 1 /\ DateFromTime(DueLocal) = 2
    /\ HourFromTime(DueLocal) = HourFromTime(NowLocal)

\* C9 as claimed: two calls with identical arguments (nextSrs takes the state and
\* the rating) return the same next state and the same dueAt.
C9_Original ==
    prev.rating # "none" /\ prev.state = last.state /\ prev.rating = last.rating =>
        prev.next = last.next /\ prev.dueAt = last.dueAt

\* C9 amended: two calls with the same state and rating return the same next
\* state; they return the same dueAt when the ambient clock, which nextSrs reads
\* itself, shows the same instant at both calls (in one time zone).
C9_Amended ==
    prev.rating # "none" /\ prev.state = last.state /\ prev.rating = last.rating =>
        /\ prev.next = last.next
        /\ prev.now = last.now => prev.dueAt = last.dueAt

C9_Witness ==
    /\ prev.rating = "easy" /\ last.rating = "easy"
    /\ prev.state = last.state
    /\ prev.now = last.now
    /\ prev.next = last.next /\ prev.dueAt = last.dueAt /\ last.dueAt.valid

\* C10: 'hard', 'good' and 'easy' return the normalized input reps plus exactly 1;
\* only 'again' returns fewer reps than the normalized input, and it returns 0.
C10_Reps ==
    Called =>
        LET r == Whole(last.state.reps)
        IN  /\ last.rating \in {"hard", "good", "easy"} => last.next.reps = Num(r + Scale)
            /\ last.rating = "again" => last.next.reps = Num(0)
            /\ last.next.reps.v < r => last.rating = "again"

C10_Witness ==
    /\ last.rating = "hard"
    /\ last.state.reps = Num(150)
    /\ last.next.reps = Num(200)

---------------------------------------------------------------------------
(* C11 .. C20 *)

\* C11: in every state reached from initialSrsState() by any sequence of ratings,
\* reps is the number of ratings other than 'again' applied since the latest
\* 'again', or since creation when there was none.
C11_RepsCountStreak == state.reps = Num(streak.since * Scale)

C11_Witness ==
    /\ streak.lapsed /\ streak.since = 2
    /\ last.rating = "easy"
    /\ state.reps = Num(200)

\* C12: for every stored input state, also one whose intervalDays is fractional or
\* negative, and every rating, the returned intervalDays is a non-negative whole
\* number, never a fraction.
C12_IntervalWhole ==
    Called =>
        /\ last.next.intervalDays.k = "num"
        /\ last.next.intervalDays.v >= 0
        /\ last.next.intervalDays.v % Scale = 0

C12_Witness ==
    /\ last.rating = "hard"
    /\ last.state.intervalDays = Num(370)
    /\ last.next.intervalDays = Num(400)

\* C13: a stored negative intervalDays or reps counts as 0 and a stored fraction
\* is floored before the rating is applied; intervalDays = -5 rated 'good' gives 1.
C13_Normalized ==
    Called =>
        LET i == Whole(last.state.intervalDays) \div Scale
            r == Whole(last.state.reps)
        IN  /\ last.next.intervalDays = Num(Scale * StepDays(i, last.rating))
            /\ last.next.reps = Num(IF last.rating = "again" THEN 0 ELSE r + Scale)
            /\ (last.state.intervalDays = Num(-500) /\ last.rating = "good"
                   => last.next.intervalDays = Num(100))

C13_Witness ==
    /\ last.rating = "good"
    /\ last.state.intervalDays = Num(-500) /\ last.state.reps = Num(150)
    /\ last.next.intervalDays = Num(100) /\ last.next.reps = Num(200)

\* C14 as claimed: when a stored intervalDays, ease or reps is NaN, infinite or
\* missing, it is replaced by its default (0, 2.5, 0) before any arithmetic, so for
\* every rating the returned intervalDays and reps are finite non-negative whole
\* numbers, the returned ease is finite, and dueAt is a valid date.
C14_Original ==
    Called /\ (\E f \in {"intervalDays", "ease", "reps"} : ~IsFinite(last.state[f])) =>
        /\ IsCount(last.next.intervalDays)
        /\ IsCount(last.next.reps)
        /\ IsFinite(last.next.ease)
        /\ last.dueAt.valid

\* C15: every call of initialSrsState() returns exactly {intervalDays: 0, ease:
\* 2.5, reps: 0}, and the value returned is fresh: no other caller holds it, so
\* what another caller writes, or a later transition, never changes it.
C15_FreshInitial ==
    \A i \in 1 .. Len(held) :
        /\ held[i].fresh =>
               held[i].made = [intervalDays |-> Num(0), ease |-> Num(250), reps |-> Num(0)]
        /\ heap[held[i].ref] = held[i].seen
        /\ \A j \in 1 .. Len(held) : j # i => held[j].ref # held[i].ref

C15_Witness ==
    /\ Len(held) = 2
    /\ held[1].fresh /\ heap[held[1].ref].ease = Num(700)
    /\ held[2].fresh
    /\ heap[held[2].ref] = [intervalDays |-> Num(0), ease |-> Num(250), reps |-> Num(0)]

\* C16: the transition is total and no state is terminal: in every state reached
\* from initialSrsState() each of the four ratings is applicable and returns a
\* result, never an error: a next state of finite numbers, itself a state the
\* ratings apply to, and a valid dueAt (within the calendar range explored).
C16_Total ==
    \A rating \in Ratings :
        LET r == nextSrs(state, rating)
        IN  /\ IsCount(r.next.intervalDays)
            /\ IsCount(r.next.reps)
            /\ IsFinite(r.next.ease)
            /\ r.dueAt.valid

C16_Witness ==
    /\ streak.lapsed /\ state.reps = Num(300)
    /\ last.next = state /\ last.dueAt.valid
    /\ \A rating \in Ratings : nextSrs(state, rating).dueAt.valid

\* C17: a call of nextSrs has no side effects: the state passed in is the same
\* after the call, and nothing but the returned result is modified (not the
\* clock, the zone, or any other object).
C17_NoSideEffects ==
    [][last' # last =>
           /\ state' = state
           /\ clock' = clock /\ tz' = tz
           /\ heapVars' = heapVars /\ appVars' = appVars /\ pageVars' = pageVars
           /\ last'.state = state]_vars

C17_Witness ==
    /\ last.rating = "good"
    /\ last.state = state
    /\ state.intervalDays = Num(-500) /\ state.reps = Num(150)
    /\ last.next.intervalDays = Num(100) /\ last.next.reps = Num(200)

\* C18: after at least one transition, from any stored input state and with any
\* rating, intervalDays is at least 1 and reps is at least 0.
C18_AfterTransition ==
    Called =>
        /\ JsLess(Num(99), last.next.intervalDays)
        /\ ~JsLess(last.next.reps, Num(0))
        /\ IsFinite(last.next.intervalDays) /\ IsFinite(last.next.reps)

C18_Witness ==
    /\ last.rating = "good"
    /\ last.state.intervalDays = Num(0) /\ last.state.reps = Num(-100)
    /\ last.next.intervalDays = Num(100) /\ last.next.reps = Num(100)

\* C19: intervalDays and ease grow without limit on streaks: every 'good' or
\* 'easy' returns an intervalDays strictly greater than the normalized input
\* intervalDays, and every 'easy' returns an ease strictly greater than the input
\* ease, so no finite bound holds over all reachable states.
C19_StrictGrowth ==
    Called =>
        /\ last.rating \in {"good", "easy"} =>
               /\ IsFinite(last.next.intervalDays)
               /\ last.next.intervalDays.v > Whole(last.state.intervalDays)
        /\ last.rating = "easy" =>
               /\ IsFinite(last.next.ease)
               /\ last.next.ease.v > EaseIn(last.state)

C19_Witness ==
    /\ last.rating = "easy"
    /\ last.state.intervalDays = Num(370) /\ last.state.ease = Num(250)
    /\ last.next.intervalDays = Num(900) /\ last.next.ease = Num(265)

\* C20: the content of a protected page is shown only when the session has
\* finished loading, a user is logged in and its emailVerification is true; with
\* the session loaded, a visitor with no user is sent to /login and a logged-in
\* unverified user is sent to /verify-required.
C20_Protected ==
    /\ \A p \in Paths :
           Route(p).kind = "content" =>
               p \in Protected /\ ~loading /\ user.present /\ user.emailVerification
    /\ \A p \in Protected :
           /\ ~loading /\ ~user.present => Route(p) = Navigate("/login")
           /\ ~loading /\ user.present /\ ~user.emailVerification
                  => Route(p) = Navigate("/verify-required")

C20_Witness ==
    /\ path = "/settings"
    /\ session = [state |-> "ready", value |-> Verified, user |-> Verified]
    /\ Route(path) = Content("/settings")

---------------------------------------------------------------------------
(* C21 .. C30 *)

\* C26: the intervalDays, reps and dueAt returned do not depend on the input
\* ease: a state that differs from the input only in its ease yields, for the
\* same rating at the same clock reading, the same intervalDays, reps and dueAt.
C26_EaseIndependent ==
    Called /\ clock = last.now =>
        \A e \in EaseInputs :
            LET other == nextSrs([last.state EXCEPT !.ease = e], last.rating)
            IN  /\ other.next.intervalDays = last.next.intervalDays
                /\ other.next.reps = last.next.reps
                /\ other.dueAt = last.dueAt

C26_Witness ==
    /\ last.rating = "good" /\ clock = last.now
    /\ last.state.intervalDays = Num(300) /\ last.state.ease = Num(140)
    /\ last.next.intervalDays = Num(800)
    /\ nextSrs([last.state EXCEPT !.ease = Num(250)], "good").next.ease # last.next.ease
    /\ nextSrs([last.state EXCEPT !.ease = Num(250)], "good").dueAt = last.dueAt

\* C27: 'hard', 'good' and 'easy' never return an intervalDays smaller than the
\* normalized input intervalDays; only 'again' can shorten the interval.
C27_OnlyAgainShortens ==
    Called =>
        /\ IsFinite(last.next.intervalDays)
        /\ last.rating \in {"hard", "good", "easy"} =>
               last.next.intervalDays.v >= Whole(last.state.intervalDays)
        /\ last.next.intervalDays.v < Whole(last.state.intervalDays) => last.rating = "again"

C27_Witness ==
    /\ last.rating = "hard"
    /\ last.state.intervalDays = Num(100)
    /\ last.next.intervalDays = Num(100)

\* C21: the word presented for review is always a word of the current user whose
\* srsDueAt is at or before the query time, and the one with the smallest srsDueAt
\* among those; a word that is not yet due is never presented.  (A page presents
\* the first document of its latest query; in the store the word is due whenever
\* no rate call of the page is under way.)
C21_PresentedIsDue ==
    /\ [](\A t \in 1 .. Len(tabs) :
            Presents(t) =>
                /\ tabs[t].userId # "" => Current(t).userId = tabs[t].userId
                /\ IsoLeq(Current(t).srsDueAt, tabs[t].asOf)
                /\ IsoLeq(tabs[t].asOf, NowIso)
                /\ \A k \in 1 .. Len(tabs[t].due) :
                       IsoLeq(Current(t).srsDueAt, tabs[t].due[k].srsDueAt)
                /\ tabs[t].pc = "idle" =>
                       IsoLeq(words[Current(t).id].srsDueAt, NowIso))
    /\ [][\A t \in 1 .. Len(tabs) :
              tabs'[t].due # tabs[t].due /\ Len(tabs'[t].due) > 0 =>
                  LET cur == tabs'[t].due[1]
                  IN  /\ words[cur.id] = cur
                      /\ cur.userId = tabs[t].userId
                      /\ \A i \in 1 .. Len(words) :
                             words[i].userId = tabs[t].userId
                                 /\ IsoLeq(words[i].srsDueAt, NowIso)
                             => IsoLeq(cur.srsDueAt, words[i].srsDueAt)]_vars

C21_Witness ==
    /\ Presents(1) /\ Len(tabs[1].due) = 2
    /\ Current(1).id = 1 /\ tabs[1].due[2].id = 3
    /\ IsoLess(words[2].srsDueAt, Current(1).srsDueAt)
    /\ IsoLess(Current(1).srsDueAt, tabs[1].due[2].srsDueAt)

\* C22 as stated: on a rating the reviewed word's record is updated with the next
\* state and due date of the transition and with lastReviewedAt equal to the same
\* 'now' the transition used; no other word record is changed.
C22_Original ==
    [][\A t \in 1 .. Len(tabs) :
          Stores(t) =>
              /\ StoredNext(t)
              /\ words'[tabs[t].w].lastReviewedAt = toISOString(DateOf(tabs[t].now))]_vars

\* C22, amended: on a rating the reviewed word's record is updated with the next
\* state and due date of the transition, and with lastReviewedAt set to a second
\* reading of the clock, taken after the transition read its 'now' and before the
\* request is sent, so at or after that 'now'; no other word record is changed.
C22_Amended ==
    [][\A t \in 1 .. Len(tabs) :
          Stores(t) =>
              /\ StoredNext(t)
              /\ IsoLeq(toISOString(DateOf(tabs[t].now)), words'[tabs[t].w].lastReviewedAt)
              /\ IsoLeq(words'[tabs[t].w].lastReviewedAt, NowIso)]_vars

C22_Witness ==
    /\ tabs[1].pc = "updated" /\ tabs[1].w = 1 /\ tabs[1].rating = "good"
    /\ words[1].srsIntervalDays = Num(300) /\ words[1].srsReps = Num(200)
    /\ words[1].srsDueAt = toISOString(DateOf(At(2024, 2, 12, 5)))
    /\ tabs[1].now < clock
    /\ words[1].lastReviewedAt = NowIso
    /\ Len(words) = 3 /\ words[3] = NewWord(3, "u1", words[3].srsDueAt, initialSrsState)

\* C23 as stated: a newly created word is stored with the initial scheduling state
\* (intervalDays 0, ease 2.5, reps 0) and srsDueAt equal to its creation time, so
\* it is in the result of every review query of its owner made at or after its
\* creation until its first review.
C23_Original ==
    /\ [][Creates]_vars
    /\ [](\A t \in 1 .. Len(tabs) : \A i \in 1 .. Len(words) :
            QueriedFor(t, i) /\ Fresh(i) => Listed(t, i))

\* C23, amended: a newly created word is stored with the initial scheduling state
\* and srsDueAt equal to its creation time; a review query of its owner made at
\* or after its creation and before its first review returns it unless Limit
\* words of the owner that are due no later fill the result.
C23_Amended ==
    /\ [][Creates]_vars
    /\ [](\A t \in 1 .. Len(tabs) : \A i \in 1 .. Len(words) :
            QueriedFor(t, i) /\ Fresh(i) =>
                \/ Listed(t, i)
                \/ /\ Len(tabs[t].due) = Limit
                   /\ \A k \in 1 .. Limit :
                          IsoLeq(tabs[t].due[k].srsDueAt, words[i].srsDueAt))

C23_Witness ==
    /\ Len(words) = Limit + 1 /\ Fresh(Limit + 1)
    /\ words[Limit + 1] = NewWord(Limit + 1, "u1", NowIso, initialSrsState)
    /\ QueriedFor(1, Limit + 1)
    /\ Len(tabs[1].due) = Limit /\ tabs[1].due[Limit] = words[Limit + 1]
    /\ ~Listed(1, 1)

\* C24: when two review sessions have read the same word and each applies a
\* rating, every write replaces all five stored fields with the result the
\* writing session computed from the record it had read, whatever another
\* session has stored in between, and nothing else changes the record: the
\* stored state after both writes is the result of the session that wrote last,
\* never a mixture.
C24_LastWriteWins ==
    [][/\ \A t \in 1 .. Len(tabs) :
             Stores(t) =>
                 /\ StoredNext(t)
                 /\ words'[tabs[t].w] =
                        [id |-> Current(t).id, userId |-> Current(t).userId,
                         srsIntervalDays |-> Rated(t).next.intervalDays,
                         srsEase |-> Rated(t).next.ease,
                         srsReps |-> Rated(t).next.reps,
                         srsDueAt |-> tabs[t].data.srsDueAt,
                         lastReviewedAt |-> tabs[t].data.lastReviewedAt]
       /\ (\E t \in 1 .. Len(tabs) : Stores(t)) \/ words' = words]_vars

C24_Witness ==
    /\ tabs[1].pc = "updated" /\ tabs[2].pc = "updated"
    /\ tabs[1].w = 1 /\ tabs[2].w = 1 /\ tabs[1].due = tabs[2].due
    /\ tabs[1].rating = "easy" /\ tabs[2].rating = "again"
    /\ tabs[1].now < tabs[2].now
    /\ words[1].srsIntervalDays = tabs[2].next.intervalDays
    /\ words[1].srsEase = tabs[2].next.ease
    /\ words[1].srsReps = tabs[2].next.reps
    /\ words[1].srsDueAt = toISOString(tabs[2].dueAt)
    /\ words[1].srsDueAt # toISOString(tabs[1].dueAt)
    /\ words[1].srsEase # tabs[1].next.ease
    /\ words[1].srsReps # tabs[1].next.reps

\* C25 as stated: once a toggle on device a that removes book x has completed, a
\* later toggle of a different book y on device b, whose local favorites still
\* list x, does not put x back into the account's stored favorites.
C25_Original ==
    [][\A a, b \in 1 .. Len(devices) : \A x, y \in BookIds :
          /\ a # b /\ x # y
          /\ devices[a].pc = "idle" /\ devices[a].done = [bookId |-> x, has |-> FALSE]
          /\ devices[b].pc = "save" /\ devices'[b].pc = "idle"
          /\ devices[b].bookId = y
          /\ devices[b].began[a] = devices[a].done
          /\ x \in devices[b].read /\ x \notin devices[b].cloud
          => x \notin prefs']_vars

\* C28: after a rating is written back, the rated word's srsDueAt is at least one
\* calendar day after the time of rating, so the word is absent from the
\* refetched due list; with no new words and no clock advance past a due date,
\* rating each presented word in turn eventually empties the due list.
C28_Drains ==
    /\ [][\A t \in 1 .. Len(tabs) :
              /\ Stores(t) =>
                     /\ tabs[t].dueAt.valid
                     /\ Day(LocalTime(tz, tabs[t].dueAt.t)) >=
                            Day(LocalTime(tz, tabs[t].now)) + 1
                     /\ words'[tabs[t].w].srsDueAt = toISOString(tabs[t].dueAt)
                     /\ IsoLess(NowIso, words'[tabs[t].w].srsDueAt)
              /\ Refetches(t) =>
                     /\ tabs'[t].asOf = NowIso
                     /\ \A k \in 1 .. Len(tabs'[t].due) :
                            tabs'[t].due[k].id # tabs[t].w]_vars
    /\ <>[](\A t \in 1 .. Len(tabs) : CaughtUp(t))

C28_Witness ==
    /\ CaughtUp(1)
    /\ ReviewedSince(toISOString(DateOf(clock - ticks))) = {1, 3}
    /\ words[1].srsDueAt = toISOString(DateOf(At(2024, 2, 10, 6)))
    /\ words[3].srsDueAt = toISOString(DateOf(At(2024, 2, 11, 5)))

\* C29: if the write-back of a rating fails, or the user is not logged in, or the
\* configuration is missing, the stored word record is unchanged, an error
\* message is set, the same word remains the current word and the busy flag is
\* reset to false; the busy flag is false after every completed rate call,
\* including one made when no word is due.
C29_FailureLeavesWord ==
    /\ [](\A t \in 1 .. Len(tabs) : tabs[t].busy <=> tabs[t].pc # "idle")
    /\ [][\A t \in 1 .. Len(tabs) :
              /\ Fails(t) =>
                     /\ words' = words
                     /\ tabs'[t].error # ""
                     /\ tabs'[t].due = tabs[t].due /\ Presents(t)'
                     /\ tabs'[t].revealed = tabs[t].revealed
                     /\ ~tabs'[t].busy
              /\ EndsAtOnce(t) =>
                     /\ words' = words
                     /\ tabs'[t].due = tabs[t].due
                     /\ tabs'[t].dueError = tabs[t].dueError
                     /\ ~tabs'[t].busy
                     /\ tabs'[t].error = "" <=> ~tabs[t].dueError /\ Len(tabs[t].due) = 0]_vars

C29_Witness ==
    /\ tabs[1].pc = "idle" /\ ~tabs[1].busy /\ tabs[1].revealed
    /\ tabs[1].error = "Failed to update review"
    /\ Presents(1) /\ Current(1) = words[1] /\ words = StartWords

\* C30 as stated: on login, if creating the session fails with an 'active session
\* already exists' error, the current session is deleted and session creation is
\* retried exactly once; any other error propagates to the caller without
\* deleting a session and without refreshing the user, and the user is refreshed
\* only after a session was created.
C30_Original ==
    LET c == attempt.calls
    IN  /\ \A k \in 1 .. Len(c) :
               /\ c[k].op = "delete" =>
                      k = 2 /\ c[1].err.kind = "session_exists" /\ c[k].err = NoError
               /\ c[k].op = "create" => k = 1 \/ (k = 3 /\ c[2].op = "delete")
               /\ c[k].op = "refresh" =>
                      k = Len(c) /\ k > 1 /\ c[k - 1] = Made("create", NoError)
        /\ attempt.pc = "retry" => ~account.present

\* C30, amended: on login, if creating the session fails with an 'active session
\* already exists' error, the deletion of the current session is requested, a
\* failure of the deletion is ignored, and session creation is retried exactly
\* once, an error of the retry propagating to the caller; any other error of the
\* first attempt propagates without a deletion and without refreshing the user,
\* and the user is refreshed only after a session was created.
C30_RetryOnce ==
    LET c == attempt.calls
        finished == attempt.pc = "none" /\ attempt.outcome # "none"
    IN  /\ \A k \in 1 .. Len(c) :
               /\ c[k].op = "delete" =>
                      k = 2 /\ c[1].op = "create" /\ c[1].err.kind = "session_exists"
               /\ c[k].op = "create" => k = 1 \/ (k = 3 /\ c[2].op = "delete")
               /\ c[k].op = "refresh" =>
                      /\ k = Len(c) /\ k > 1
                      /\ c[k - 1].op = "create" /\ c[k - 1].err = NoError
        /\ Len(c) > 0 => c[1].op = "create"
        /\ finished /\ c[1].err.kind = "session_exists" =>
               Len(c) >= 3 /\ c[2].op = "delete" /\ c[3].op = "create"
        /\ finished /\ c[1].err.kind \notin {"none", "session_exists"} =>
               c = <<c[1]>> /\ attempt.outcome = "rejected" /\ attempt.err = c[1].err
        /\ finished =>
               (attempt.outcome = "resolved" <=> c[Len(c)].op = "refresh")

C30_Witness ==
    /\ attempt.pc = "none" /\ attempt.outcome = "resolved"
    /\ Len(attempt.calls) = 4
    /\ attempt.calls[1].err.kind = "session_exists" /\ attempt.calls[1].err.message # <<>>
    /\ attempt.calls[2] = Made("delete", NoError)
    /\ attempt.calls[3] = Made("create", NoError)
    /\ attempt.calls[4] = Made("refresh", NoError)
    /\ account = attempt.as /\ account = Verified

====
